---- MODULE Spec2Model ----
(***************************************************************************)
(* The incremental Quickbase -> GCS -> BigQuery pipeline of app.py:        *)
(* the /run handler (paginated extraction, JSONL sink, stage-and-merge,    *)
(* in-memory checkpoint last_run) and the MERGE of bq_writer.py.           *)
(***************************************************************************)
EXTENDS Integers, Sequences, FiniteSets, Bags, TLC

(***************************************************************************)
(* Values.  Python None / SQL NULL is the empty tuple, a present value v   *)
(* is the one-element tuple <<v>>.                                          *)
(***************************************************************************)
Null == << >>

Some(v) == << v >>

Range(s) == { s[i] : i \in DOMAIN s }

(***************************************************************************)
(* A cell of a Quickbase record (the field_data of one field id).          *)
(*   form : "wrapped" is {"value": x}, "raw" is a bare x, "absent" means   *)
(*          the field id is not a key of the record                        *)
(*   kind : "int" a number (timestamps are numbers of milliseconds),       *)
(*          "str" a text that int() rejects, "null" a JSON null            *)
(***************************************************************************)
W(n) == [form |-> "wrapped", kind |-> "int", v |-> n]

WStr == [form |-> "wrapped", kind |-> "str", v |-> 0]

WNull == [form |-> "wrapped", kind |-> "null", v |-> 0]

Raw(n) == [form |-> "raw", kind |-> "int", v |-> n]

Absent == [form |-> "absent", kind |-> "null", v |-> 0]

\* One Quickbase record: field '2' modified_date, '3' record_id, '8' notes.
QbRecord(c3, c2, c8) == [f2 |-> c2, f3 |-> c3, f8 |-> c8]

(***************************************************************************)
(* schemas/field_mappings.py                                               *)
(***************************************************************************)
\* field_data.get('value') raises AttributeError on a cell that is no dict.
GetValueRaises(cell) == cell.form = "raw"

\* INTEGER column: int(raw_value), None on ValueError/TypeError or on null.
IntColumn(cell) == IF cell.kind = "int" THEN Some(cell.v) ELSE Null

\* TIMESTAMP and STRING columns carry raw_value through (None stays None).
PassColumn(cell) == IF cell.kind = "null" THEN Null ELSE Some(cell.v)

\* The loop over qb_record.items() raises as soon as one cell is no dict.
TransformRaises(rec) ==
    \/ GetValueRaises(rec.f2)
    \/ GetValueRaises(rec.f3)
    \/ GetValueRaises(rec.f8)

\* The dict transform_quickbase_record returns is empty (falsy) when the
\* record holds none of the mapped field ids.
TransformEmpty(rec) ==
    /\ rec.f2.form = "absent"
    /\ rec.f3.form = "absent"
    /\ rec.f8.form = "absent"

\* The transformed row; a column whose field is absent is filled with None
\* by the caller (bq_writer.py line 313-315).
transform_quickbase_record(rec) ==
    [record_id     |-> IntColumn(rec.f3),
     modified_date |-> PassColumn(rec.f2),
     notes         |-> PassColumn(rec.f8)]

(***************************************************************************)
(* services/bq_writer.py : reading the staging object                      *)
(***************************************************************************)
\* A line is kept when the transform neither raises (the except clauses
\* log and continue) nor returns an empty dict.
LineKept(rec) == ~TransformRaises(rec) /\ ~TransformEmpty(rec)

_read_and_transform_gcs_file(lines) ==
    LET kept == SelectSeq(lines, LineKept)
    IN  [i \in 1..Len(kept) |-> transform_quickbase_record(kept[i])]

(***************************************************************************)
(* services/bq_writer.py : the MERGE statement                             *)
(***************************************************************************)
\* Mutant: ORDER BY modified_date ASC.
NotAfterAsc(a, b) == a = Null \/ (b # Null /\ a[1] <= b[1])

\* ORDER BY modified_date DESC: a is not after b (NULLs sort last).
NotAfterDesc(a, b) == b = Null \/ (a # Null /\ a[1] >= b[1])

\* PARTITION BY record_id: the rows of one key (NULL keys form one group).
Partition(temp, k) == { r \in Range(temp) : r.record_id = k }

\* The rows that may get rn = 1 in their partition (a tie is broken
\* arbitrarily by ROW_NUMBER).
FirstRanked(temp, k) ==
    { r \in Partition(temp, k) :
        \A q \in Partition(temp, k) : NotAfterDesc(r.modified_date, q.modified_date) }

TempKeys(temp) == { r.record_id : r \in Range(temp) }

\* Mutant: the USING subquery does not deduplicate.
SourceRelationsNoDedupe(temp) == { Range(temp) }

\* Every relation the USING subquery can produce from the temp table.
SourceRelations(temp) ==
    LET keys == TempKeys(temp)
        picks == { f \in [keys -> Range(temp)] :
                     \A k \in keys : f[k] \in FirstRanked(temp, k) }
    IN  { { f[k] : k \in keys } : f \in picks }

\* ON target.record_id = source.record_id (never true on a NULL key).
OnMatch(t, s) ==
    /\ t.record_id # Null
    /\ s.record_id # Null
    /\ t.record_id = s.record_id

\* Mutant: source.modified_date >= target.modified_date.
NewerOrSame(a, b) == a # Null /\ b # Null /\ a[1] >= b[1]

\* source.modified_date > target.modified_date (NULL compares as unknown).
NewerThan(a, b) == a # Null /\ b # Null /\ a[1] > b[1]

\* WHEN MATCHED AND source.modified_date > target.modified_date
UpdatedBy(t, source) ==
    { s \in source : OnMatch(t, s) /\ NewerThan(s.modified_date, t.modified_date) }

\* UPDATE SET every non-key column from the source row.
RowAfter(t, source) ==
    IF UpdatedBy(t, source) = {} THEN t
    ELSE LET s == CHOOSE x \in UpdatedBy(t, source) : TRUE
         IN  [record_id |-> t.record_id,
              modified_date |-> s.modified_date,
              notes |-> s.notes]

\* WHEN NOT MATCHED THEN INSERT
Inserted(table, source) ==
    { s \in source : \A t \in BagToSet(table) : ~OnMatch(t, s) }

RECURSIVE CopiesSum(_, _)
CopiesSum(table, rows) ==
    IF rows = {} THEN 0
    ELSE LET r == CHOOSE x \in rows : TRUE
         IN  CopiesIn(r, table) + CopiesSum(table, rows \ {r})

\* The target table after the MERGE, as a bag of rows.
MergedTable(table, source) ==
    LET old  == BagToSet(table)
        ins  == Inserted(table, source)
        rows == { RowAfter(t, source) : t \in old } \cup ins
    IN  [x \in rows |->
            CopiesSum(table, { t \in old : RowAfter(t, source) = x })
            + (IF x \in ins THEN 1 ELSE 0)]

\* merge_job.num_dml_affected_rows: rows updated plus rows inserted.
AffectedRows(table, source) ==
    CopiesSum(table, { t \in BagToSet(table) : UpdatedBy(t, source) # {} })
    + Cardinality(Inserted(table, source))


(***************************************************************************)
(* Bounds of the model                                                     *)
(***************************************************************************)
\* The wall clock runs from ClockStart ms to ClockEnd ms, a second at a time.
ClockStart == 1200

ClockEnd == 2200

\* Number of record writes the source accepts after the initial state.
MaxWrites == 1

\* cfg.PAGE_SIZE, scaled down.
PageSize == 2

\* Cap on the page requests of one run.
MaxRequests == 4

\* The record ids of the Quickbase table.
RecordIds == {1, 2, 3}

\* The /run requests served; they may overlap in time.
Runs == {1, 2}

\* utils.py: int(dt.timestamp() * 1000)
MsPerSecond == 1000

(***************************************************************************)
(* State                                                                   *)
(***************************************************************************)
VARIABLES
    now,          \* datetime.utcnow(), in ms since the epoch
    source,       \* the Quickbase table: record id -> Quickbase record
    writes,       \* number of source writes so far
    last_run,     \* app.py: the in-memory checkpoint (None or epoch ms)
    objects,      \* the GCS bucket: object name -> finalized JSONL lines
    target,       \* the BigQuery staging table, a bag of rows
    temp_tables,  \* the temp table of each run's upsert
    runs,         \* the frame of each /run request
    m_phase,      \* upsert driver: "idle", "staging", "merged" or "again"
    m_count,      \* upsert driver: number of staging objects applied
    m_object,     \* upsert driver: the staging object applied last
    m_before,     \* upsert driver: the staging table before the last upsert
    m_result,     \* upsert driver: the result of the last upsert
    m_newest,     \* upsert driver: per record id, the newest modified_date loaded so far
    q_pc,         \* iter_batches: "idle", "request", "raised" or "exhausted"
    q_faulty,     \* the source answers every request with a transient error
    q_sent,       \* times the current page request was sent (first try and retries)
    q_status,     \* HTTP status of the last answer (0 before the first)
    q_page_no,    \* iter_batches: page_no
    q_response,   \* the response of the run the iteration belongs to
    c_mark,       \* sequential caller: the value of writes when it began (None before)
    o_phase,      \* two-order driver: "idle", "base" or "merged"
    o_table,      \* two-order driver: the staging table both orders start from
    o_a,          \* two-order driver: staging object A
    o_b,          \* two-order driver: staging object B
    o_ab,         \* two-order driver: the staging table after A then B
    o_ba          \* two-order driver: the staging table after B then A

pipeline == << now, source, writes, last_run, objects, temp_tables, runs >>

driver == << m_phase, m_count, m_object, m_before, m_result, m_newest >>

client == << q_pc, q_faulty, q_sent, q_status, q_page_no, q_response >>

caller == << c_mark >>

orders == << o_phase, o_table, o_a, o_b, o_ab, o_ba >>

vars == << now, source, writes, last_run, objects, target, temp_tables, runs,
           m_phase, m_count, m_object, m_before, m_result, m_newest,
           q_pc, q_faulty, q_sent, q_status, q_page_no, q_response, c_mark,
           o_phase, o_table, o_a, o_b, o_ab, o_ba >>

NoResult == [success |-> FALSE, message |-> "none", rows_loaded |-> 0, rows_affected |-> Null]

NoResponse == [sent |-> FALSE, ok |-> FALSE, error |-> "none", has_counts |-> FALSE,
               gcs_pages |-> 0, gcs_rows |-> 0, last_run_ms |-> Null]

NoTemp == [state |-> "none", expires |-> FALSE, delete_failed |-> FALSE]

\* A request that has not arrived yet, and the locals of one that returned.
IdleRun ==
    [pc |-> "idle", object_name |-> 0, prev_ms |-> Null, current_ms |-> 0,
     skip |-> 0, total_rows |-> 0, pages |-> 0, writer |-> << >>,
     records |-> << >>, temp_fqid |-> FALSE, staging_result |-> NoResult,
     requests |-> 0, short_seen |-> FALSE, empty_seen |-> FALSE,
     past_short |-> 0, past_empty |-> 0, stage |-> "none",
     start |-> 0, wheres |-> {}, fault |-> "none",
     response |-> NoResponse]

(***************************************************************************)
(* services/gcs_writer.py and utils.py                                     *)
(***************************************************************************)
\* ts.strftime("%Y%m%dT%H%M%SZ"): the stamp keeps whole seconds only; the
\* prefix, basename and extension are the same for every object.
new_object_name(ts) == ts \div MsPerSecond

\* strptime of the stamp, as epoch ms.
gcs_object_epoch_ms(object_name) == object_name * MsPerSecond

(***************************************************************************)
(* The source collaborator (Quickbase records/query)                       *)
(***************************************************************************)
\* where = "{2.OAF.prev_ms}" if prev_ms else None: modified on or after.
WhereHolds(rec, prev_ms) == prev_ms = Null \/ rec.f2.v >= prev_ms[1]

RECURSIVE SortedIds(_)
SortedIds(ids) ==
    IF ids = {} THEN << >>
    ELSE LET m == CHOOSE x \in ids : \A y \in ids : x <= y
         IN  << m >> \o SortedIds(ids \ {m})

\* One page: the matching records in record-id order, window [skip, skip+top).
get_records(page_size, skip, prev_ms) ==
    LET ids == SortedIds({ i \in DOMAIN source : WhereHolds(source[i], prev_ms) })
        all == [i \in 1..Len(ids) |-> source[ids[i]]]
    IN  SubSeq(all, skip + 1, IF skip + page_size < Len(all) THEN skip + page_size ELSE Len(all))

\* Mutant: the sink puts the lines of a batch before the lines it holds.
write_batch_prepends(writer, page) == page \o writer

\* The sink appends the page's records as lines, in order.
write_batch(writer, page) == writer \o page

(***************************************************************************)
(* Environment: the clock and the source                                   *)
(***************************************************************************)
\* One second passes.
Tick ==
    /\ now + MsPerSecond <= ClockEnd
    /\ now' = now + MsPerSecond
    /\ UNCHANGED << source, writes, last_run, objects, target, temp_tables, runs, driver, client, caller, orders >>

\* The shapes in which the API returns a record: cells wrapped as
\* {value: ...}, cells as raw values, or wrapped with a record id that is
\* no integer.
SourceForms == {"wrapped", "raw", "text"}

WrittenRecord(id, form) ==
    CASE form = "wrapped" -> QbRecord(W(id), W(now), W(1))
      [] form = "raw"     -> QbRecord(Raw(id), Raw(now), Raw(1))
      [] form = "text"    -> QbRecord(WStr, W(now), W(1))

\* A record is created or modified now.
SourceWrite(id, form) ==
    /\ writes < MaxWrites
    /\ writes' = writes + 1
    /\ source' = [i \in DOMAIN source \cup {id} |->
                    IF i = id THEN WrittenRecord(id, form) ELSE source[i]]
    /\ UNCHANGED << now, last_run, objects, target, temp_tables, runs, driver, client, caller, orders >>


(***************************************************************************)
(* app.py : the /run handler, one action per step between two accesses to  *)
(* state shared with other requests                                        *)
(***************************************************************************)
\* Mutant: the exception leaves the handler, no response is built.
ExceptionEscapes == NoResponse

\* except Exception: return {"ok": False, "error": str(e)}, 500
ExceptionResponse == [NoResponse EXCEPT !.sent = TRUE, !.error = "exception"]

\* The frame of a request that has returned: only the response is left.
Returned(resp, stage) == [IdleRun EXCEPT !.pc = "done", !.response = resp, !.stage = stage]

\* Line 33-34: object_name = gcs.new_object_name()
NewObjectName(r) ==
    /\ runs[r].pc = "idle"
    /\ \A q \in Runs : q < r => runs[q].pc # "idle"
    /\ runs' = [runs EXCEPT ![r].pc = "named",
                            ![r].start = now,
                            ![r].object_name = new_object_name(now)]
    /\ UNCHANGED << now, source, writes, last_run, objects, target, temp_tables, driver, client, caller, orders >>

\* Line 37-50: prev_ms = last_run, the candidate checkpoint, open the sink.
ReadCheckpoint(r) ==
    /\ runs[r].pc = "named"
    /\ runs' = [runs EXCEPT ![r].pc = "extract",
                            ![r].prev_ms = last_run,
                            ![r].current_ms = gcs_object_epoch_ms(runs[r].object_name),
                            ![r].skip = 0,
                            ![r].total_rows = 0,
                            ![r].pages = 0,
                            ![r].writer = << >>]
    /\ UNCHANGED << now, source, writes, last_run, objects, target, temp_tables, driver, client, caller, orders >>

\* Mutant: the filter is built from the checkpoint as it is at each request.
PageFilterReread(f) == last_run

\* Line 38-39 and 56: where is built once, from the prev_ms read before the
\* loop, and passed to every page request.
PageFilter(f) == f.prev_ms

\* Mutant: the loop also stops on a short page.
LoopBreaksOnShortPage(page) == Len(page) < PageSize

\* Line 58-59: if not page: break
LoopBreaks(page) == page = << >>

\* Line 51-65: one iteration of the extraction loop; the request or the
\* write may raise, which ends the run in the except clause.
FetchPage(r, raises) ==
    /\ runs[r].pc = "extract"
    /\ runs[r].requests < MaxRequests
    /\ LET f    == runs[r]
           page == get_records(PageSize, f.skip, PageFilter(f))
           seen == [f EXCEPT !.requests = f.requests + 1,
                             !.wheres = f.wheres \cup {PageFilter(f)},
                             !.past_short = f.past_short + (IF f.short_seen THEN 1 ELSE 0),
                             !.past_empty = f.past_empty + (IF f.empty_seen THEN 1 ELSE 0),
                             !.short_seen = f.short_seen \/ Len(page) < PageSize,
                             !.empty_seen = f.empty_seen \/ page = << >>]
       IN  runs' = [runs EXCEPT ![r] =
                IF raises THEN Returned(ExceptionResponse, "extraction")
                ELSE IF LoopBreaks(page) THEN [seen EXCEPT !.pc = "close"]
                ELSE [seen EXCEPT !.writer = write_batch(f.writer, page),
                                  !.total_rows = f.total_rows + Len(page),
                                  !.pages = f.pages + 1,
                                  !.skip = f.skip + PageSize]]
    /\ UNCHANGED << now, source, writes, last_run, objects, target, temp_tables, driver, client, caller, orders >>

\* Leaving the with block closes the sink: the object becomes readable, or
\* the close raises and the run ends in the except clause.
CloseSink(r, raises) ==
    /\ runs[r].pc = "close"
    /\ IF raises
       THEN /\ runs' = [runs EXCEPT ![r] = Returned(ExceptionResponse, "close")]
            /\ UNCHANGED objects
       ELSE /\ objects' = [n \in DOMAIN objects \cup {runs[r].object_name} |->
                             IF n = runs[r].object_name THEN runs[r].writer ELSE objects[n]]
            /\ runs' = [runs EXCEPT ![r].pc = "staging"]
    /\ UNCHANGED << now, source, writes, last_run, target, temp_tables, driver, client, caller, orders >>

(***************************************************************************)
(* services/bq_writer.py : load_gcs_file_to_staging_upsert                 *)
(***************************************************************************)
\* Mutant: the temp table is created without table.expires.
_create_temp_table_no_expiry == [state |-> "live", expires |-> FALSE, delete_failed |-> FALSE]

\* Line 41-47: the temp table is created with table.expires set.
_create_temp_table == [state |-> "live", expires |-> TRUE, delete_failed |-> FALSE]

\* Line 159-161: except Exception
RaisedResult == [success |-> FALSE, message |-> "raised", rows_loaded |-> 0, rows_affected |-> Null]

\* Line 80-87: if not records
NoRecordsResult == [success |-> TRUE, message |-> "No records to upsert", rows_loaded |-> 0, rows_affected |-> Some(0)]

\* Line 103-108: if load_job.errors
LoadFailedResult == [success |-> FALSE, message |-> "Load to temp failed", rows_loaded |-> 0, rows_affected |-> Null]

\* Mutant: merge_job.errors is reported as a success.
MergeFailedReportedOk(records) == [success |-> TRUE, message |-> "MERGE failed", rows_loaded |-> Len(records), rows_affected |-> Null]

\* Line 142-148: if merge_job.errors
MergeFailedResult(records) == [success |-> FALSE, message |-> "MERGE failed", rows_loaded |-> Len(records), rows_affected |-> Null]

\* Mutant: rows_loaded reports the rows the MERGE affected.
UpsertedResultLoadedIsAffected(records, affected) == [success |-> TRUE, message |-> "Upserted", rows_loaded |-> affected, rows_affected |-> Some(affected)]

\* Line 150-157
UpsertedResult(records, affected) == [success |-> TRUE, message |-> "Upserted", rows_loaded |-> Len(records), rows_affected |-> Some(affected)]

\* Line 121-157: what the MERGE of the loaded records can leave and return.
MergeOutcomes(table, records) ==
    { [table  |-> MergedTable(table, src),
       result |-> UpsertedResult(records, AffectedRows(table, src))] :
        src \in SourceRelations(records) }

\* Mutant: the staging table is dropped and created afresh.
create_table_with_schema_drops(table, drop_existing) == EmptyBag

\* Line 172-209: with drop_existing the table is deleted and a new, empty
\* one created; without it a table that exists is left as it is (a table
\* that does not exist is created empty).
create_table_with_schema(table, drop_existing) ==
    IF drop_existing THEN EmptyBag ELSE table

\* Mutant: the upsert is started before the with block is left.
MayStageBeforeClose(f) == f.pc \in {"close", "staging"}

\* app.py line 50-74: load_gcs_file_to_staging_upsert is called after the
\* with block of the sink has been left without an exception.
MayStage(f) == f.pc = "staging"

\* Line 66-108: ensure the staging table (drop_existing=False), create the
\* temp table, read and
\* transform the object, load the temp table.
\*   "create_raises" : line 69-76 raises, temp_fqid stays None
\*   "load_raises"   : line 79-102 raises after the temp table exists (the
\*                     only outcome past line 76 when blob.exists() is false,
\*                     line 282-283)
\*   "load_errors"   : load_job.errors is set
StageLoad(r, outcome) ==
    /\ MayStage(runs[r])
    /\ LET f       == runs[r]
           exists  == f.object_name \in DOMAIN objects
           records == IF exists THEN _read_and_transform_gcs_file(objects[f.object_name])
                                ELSE << >>
       IN  \/ /\ outcome = "create_raises"
              /\ runs' = [runs EXCEPT ![r].pc = "cleanup",
                                      ![r].stage = "load",
                                      ![r].fault = "load",
                                      ![r].staging_result = RaisedResult]
              /\ UNCHANGED temp_tables
           \/ /\ outcome = "load_raises"
              /\ temp_tables' = [temp_tables EXCEPT ![r] = _create_temp_table]
              /\ runs' = [runs EXCEPT ![r].pc = "cleanup",
                                      ![r].stage = "load",
                                      ![r].fault = "load",
                                      ![r].temp_fqid = TRUE,
                                      ![r].staging_result = RaisedResult]
           \/ /\ outcome = "load_errors"
              /\ exists
              /\ records # << >>
              /\ temp_tables' = [temp_tables EXCEPT ![r] = _create_temp_table]
              /\ runs' = [runs EXCEPT ![r].pc = "cleanup",
                                      ![r].stage = "load",
                                      ![r].fault = "load",
                                      ![r].temp_fqid = TRUE,
                                      ![r].staging_result = LoadFailedResult]
           \/ /\ outcome = "ok"
              /\ exists
              /\ temp_tables' = [temp_tables EXCEPT ![r] = _create_temp_table]
              /\ runs' = [runs EXCEPT ![r] =
                    IF records = << >>
                    THEN [f EXCEPT !.pc = "cleanup", !.stage = "merge", !.temp_fqid = TRUE,
                                   !.staging_result = NoRecordsResult]
                    ELSE [f EXCEPT !.pc = "merge", !.temp_fqid = TRUE,
                                   !.records = records]]
    /\ target' = create_table_with_schema(target, FALSE)
    /\ UNCHANGED << now, source, writes, last_run, objects, driver, client, caller, orders >>

\* Line 110-157: the MERGE, one atomic statement on the staging table.
\*   "raises" : client.query or result() raises;  "errors" : merge_job.errors
MergeStep(r, outcome) ==
    /\ runs[r].pc = "merge"
    /\ \/ /\ outcome = "raises"
          /\ runs' = [runs EXCEPT ![r].pc = "cleanup", ![r].stage = "merge",
                                  ![r].fault = "merge",
                                  ![r].staging_result = RaisedResult]
          /\ UNCHANGED target
       \/ /\ outcome = "errors"
          /\ runs' = [runs EXCEPT ![r].pc = "cleanup", ![r].stage = "merge",
                                  ![r].fault = "merge",
                                  ![r].staging_result = MergeFailedResult(runs[r].records)]
          /\ UNCHANGED target
       \/ /\ outcome = "ok"
          /\ \E out \in MergeOutcomes(target, runs[r].records) :
                /\ target' = out.table
                /\ runs' = [runs EXCEPT ![r].pc = "cleanup", ![r].stage = "merge",
                                        ![r].staging_result = out.result]
    /\ UNCHANGED << now, source, writes, last_run, objects, temp_tables, driver, client, caller, orders >>

\* Line 162-170: finally, the best-effort delete of the temp table.
TempAfterCleanup(temp, temp_fqid, deleted) ==
    IF ~temp_fqid THEN temp
    ELSE IF deleted THEN [temp EXCEPT !.state = "deleted"]
    ELSE [temp EXCEPT !.delete_failed = TRUE]

\* Mutant: the exception of delete_table leaves the finally clause and
\* replaces the result.
ResultAfterCleanupRaises(result, deleted) == IF deleted THEN result ELSE RaisedResult

\* Line 162-170: the finally clause returns nothing, and the exception of
\* delete_table is caught and logged: the result of the try block stands.
ResultAfterCleanup(result, deleted) == result

(***************************************************************************)
(* app.py : the result of the upsert                                       *)
(***************************************************************************)
\* Mutant: the result of the upsert is not looked at.
UpsertSucceededUnchecked(result) == TRUE

\* Line 82: if not staging_result.get('success')
UpsertSucceeded(result) == result.success

\* Line 84-90
StagingFailedResponse(f) ==
    [NoResponse EXCEPT !.sent = TRUE, !.error = "staging", !.has_counts = TRUE,
                       !.gcs_pages = f.pages, !.gcs_rows = f.total_rows]

\* Line 102-111
OkResponse(f) ==
    [NoResponse EXCEPT !.sent = TRUE, !.ok = TRUE, !.has_counts = TRUE,
                       !.gcs_pages = f.pages, !.gcs_rows = f.total_rows,
                       !.last_run_ms = Some(f.current_ms)]

\* bq_writer.py line 162-170 and app.py line 82-111: the upsert's finally
\* clause runs, then the handler returns the failure, or advances the
\* checkpoint and returns.
Respond(r, deleted) ==
    /\ runs[r].pc = "cleanup"
    /\ ~deleted => runs[r].temp_fqid
    /\ temp_tables' = [temp_tables EXCEPT ![r] = TempAfterCleanup(@, runs[r].temp_fqid, deleted)]
    /\ IF UpsertSucceeded(ResultAfterCleanup(runs[r].staging_result, deleted))
       THEN /\ last_run' = Some(runs[r].current_ms)
            /\ runs' = [runs EXCEPT ![r] = Returned(OkResponse(runs[r]), "done")]
       ELSE /\ UNCHANGED last_run
            /\ runs' = [runs EXCEPT ![r] = Returned(StagingFailedResponse(runs[r]), runs[r].stage)]
    /\ UNCHANGED << now, source, writes, objects, target, driver, client, caller, orders >>

(***************************************************************************)
(* The pipeline                                                            *)
(***************************************************************************)
\* The table is empty, or holds records 1 and 2 created a second earlier.
InitialSources ==
    { << >>, [i \in {1, 2} |-> QbRecord(W(i), W(ClockStart - MsPerSecond), W(1))] }

Init ==
    /\ now = ClockStart
    /\ source \in InitialSources
    /\ writes = 0
    /\ last_run = Null
    /\ objects = << >>
    /\ target = EmptyBag
    /\ temp_tables = [r \in Runs |-> NoTemp]
    /\ runs = [r \in Runs |-> IdleRun]
    /\ m_phase = "idle"
    /\ m_count = 0
    /\ m_object = << >>
    /\ m_before = EmptyBag
    /\ m_result = NoResult
    /\ m_newest = [k \in RecordIds |-> Null]
    /\ q_pc = "idle"
    /\ q_faulty = FALSE
    /\ q_sent = 0
    /\ q_status = 0
    /\ q_page_no = 0
    /\ q_response = NoResponse
    /\ c_mark = Null
    /\ o_phase = "idle"
    /\ o_table = EmptyBag
    /\ o_a = << >>
    /\ o_b = << >>
    /\ o_ab = EmptyBag
    /\ o_ba = EmptyBag

Next ==
    \/ Tick
    \/ \E id \in RecordIds, form \in {"wrapped", "raw"} : SourceWrite(id, form)
    \/ \E r \in Runs : NewObjectName(r)
    \/ \E r \in Runs : ReadCheckpoint(r)
    \/ \E r \in Runs, raises \in BOOLEAN : FetchPage(r, raises)
    \/ \E r \in Runs, raises \in BOOLEAN : CloseSink(r, raises)
    \/ \E r \in Runs, outcome \in {"create_raises", "load_raises", "load_errors", "ok"} :
            StageLoad(r, outcome)
    \/ \E r \in Runs, outcome \in {"raises", "errors", "ok"} : MergeStep(r, outcome)
    \/ \E r \in Runs, deleted \in BOOLEAN : Respond(r, deleted)

Spec == Init /\ [][Next]_vars

(***************************************************************************)
(* The upsert alone: load_gcs_file_to_staging_upsert applied to staging    *)
(* objects drawn from a bounded set, one after the other (the MERGE is one *)
(* atomic statement, so concurrent upserts are upserts in some order).     *)
(***************************************************************************)
\* Lines per staging object, and staging objects applied.
MaxLines == 2

MaxMerges == 2

\* The lines a staging object is made of.
StagedLines ==
    { QbRecord(W(1), W(100), W(1)),
      QbRecord(W(1), W(200), W(1)),
      QbRecord(W(1), W(100), W(2)),
      QbRecord(W(2), W(100), W(1)),
      QbRecord(WStr, W(100), W(1)),
      QbRecord(W(1), WNull, W(1)),
      QbRecord(Raw(1), Raw(100), Raw(1)) }

\* Line 79-157 on a finalized object, the success path.
UpsertOutcomes(table, lines) ==
    LET records == _read_and_transform_gcs_file(lines)
    IN  IF records = << >>
        THEN { [table |-> table, result |-> NoRecordsResult] }
        ELSE MergeOutcomes(table, records)

\* The newest non-NULL modified_date loaded for each record id.
NewestAfter(newest, records) ==
    [k \in RecordIds |->
        LET mods == { r.modified_date : r \in { x \in Range(records) :
                        x.record_id = Some(k) /\ x.modified_date # Null } }
                    \cup (IF newest[k] = Null THEN {} ELSE {newest[k]})
        IN  IF mods = {} THEN Null
            ELSE CHOOSE m \in mods : \A n \in mods : m[1] >= n[1]]

Upsert(lines, phase) ==
    \E out \in UpsertOutcomes(create_table_with_schema(target, FALSE), lines) :
        /\ target' = out.table
        /\ m_result' = out.result
        /\ m_before' = target
        /\ m_phase' = phase
        /\ m_newest' = NewestAfter(m_newest, _read_and_transform_gcs_file(lines))
        /\ UNCHANGED << m_object, m_count, pipeline, client, caller, orders >>

\* A new staging object is begun.
OpenObject ==
    /\ m_phase # "staging"
    /\ m_count < MaxMerges
    /\ m_phase' = "staging"
    /\ m_count' = m_count + 1
    /\ m_object' = << >>
    /\ m_before' = EmptyBag
    /\ m_result' = NoResult
    /\ UNCHANGED << target, m_newest, pipeline, client, caller, orders >>

\* A line is appended to the staging object.
StageLine(line) ==
    /\ m_phase = "staging"
    /\ Len(m_object) < MaxLines
    /\ m_object' = Append(m_object, line)
    /\ UNCHANGED << target, m_phase, m_count, m_before, m_result, m_newest, pipeline, client, caller, orders >>

\* The finalized staging object is staged and merged.
StageAndMerge ==
    /\ m_phase = "staging"
    /\ Upsert(m_object, "merged")

\* The object merged last is staged and merged once more.
MergeAgain ==
    /\ m_phase = "merged"
    /\ Upsert(m_object, "again")

MergeNext ==
    \/ OpenObject
    \/ \E line \in StagedLines : StageLine(line)
    \/ StageAndMerge
    \/ MergeAgain

\* The driver starts on an empty staging table; the pipeline stays idle.
MergeInit == Init /\ source = << >>

SpecMerge == MergeInit /\ [][MergeNext]_vars

(***************************************************************************)
(* services/quickbase_client.py : the retrying session under iter_batches  *)
(***************************************************************************)
\* Retry(total=5, ...): the retries one request is allowed.
RetryTotal == 5

\* Cap on the pages one iteration yields.
MaxPages == 2

\* status_forcelist=(429, 500, 502, 503, 504)
status_forcelist == {429, 500, 502, 503, 504}

\* The answers of the source: a page, a transient error, a client error.
Statuses == {200, 400} \cup status_forcelist

\* Mutant: the retry counter is never exhausted.
RetryAlways(sent) == TRUE

\* Retry.total counts the retries: the request is sent again while fewer
\* than total retries were made (sent = 1 + retries).
RetryAllowed(sent) == sent - 1 < RetryTotal

\* app.py line 113-115 on the exception the iteration raised.
Raised == ExceptionResponse

\* The run starts iterating and sends the first page request (line 109);
\* the source is healthy or permanently failing.
BeginExtraction(faulty) ==
    /\ q_pc = "idle"
    /\ q_pc' = "request"
    /\ q_faulty' = faulty
    /\ q_sent' = 1
    /\ UNCHANGED << q_status, q_page_no, q_response, pipeline, target, driver, caller, orders >>

\* The answers the source can give to the request in flight.
Answers == IF q_faulty THEN status_forcelist ELSE Statuses

\* A status of the forcelist while retries remain: the adapter backs off
\* and sends the same request again.
RetryRequest(status) ==
    /\ q_pc = "request"
    /\ status \in Answers \cap status_forcelist
    /\ RetryAllowed(q_sent)
    /\ q_sent' = q_sent + 1
    /\ q_status' = status
    /\ UNCHANGED << q_pc, q_faulty, q_page_no, q_response, pipeline, target, driver, caller, orders >>

\* A status of the forcelist with the retries used up: session.post raises
\* RetryError, which leaves iter_batches and ends the run in the except
\* clause.
GiveUp(status) ==
    /\ q_pc = "request"
    /\ status \in Answers \cap status_forcelist
    /\ ~RetryAllowed(q_sent)
    /\ q_pc' = "raised"
    /\ q_status' = status
    /\ q_response' = Raised
    /\ UNCHANGED << q_faulty, q_sent, q_page_no, pipeline, target, driver, caller, orders >>

\* Line 110: raise_for_status() on an error status outside the forcelist.
RaiseForStatus(status) ==
    /\ q_pc = "request"
    /\ status \in Answers \ (status_forcelist \cup {200})
    /\ q_pc' = "raised"
    /\ q_status' = status
    /\ q_response' = Raised
    /\ UNCHANGED << q_faulty, q_sent, q_page_no, pipeline, target, driver, caller, orders >>

\* Line 111-140: a non-empty page is yielded and the next request is sent.
YieldBatch ==
    /\ q_pc = "request"
    /\ 200 \in Answers
    /\ q_page_no < MaxPages
    /\ q_page_no' = q_page_no + 1
    /\ q_status' = 200
    /\ q_sent' = 1
    /\ UNCHANGED << q_pc, q_faulty, q_response, pipeline, target, driver, caller, orders >>

\* Line 113-114: if not raw_batch: break
EndOfData ==
    /\ q_pc = "request"
    /\ 200 \in Answers
    /\ q_pc' = "exhausted"
    /\ q_status' = 200
    /\ UNCHANGED << q_faulty, q_sent, q_page_no, q_response, pipeline, target, driver, caller, orders >>

ClientNext ==
    \/ \E faulty \in BOOLEAN : BeginExtraction(faulty)
    \/ \E status \in Statuses : RetryRequest(status)
    \/ \E status \in Statuses : GiveUp(status)
    \/ \E status \in Statuses : RaiseForStatus(status)
    \/ YieldBatch
    \/ EndOfData

ClientInit == Init /\ source = << >>

\* The source answers every request (timeout=120 bounds the wait) and the
\* adapter's backoff sleeps are finite, so the iteration keeps stepping.
SpecClient == ClientInit /\ [][ClientNext]_vars /\ WF_vars(ClientNext)

(***************************************************************************)
(* app.py : /run called repeatedly by one caller, each call after the      *)
(* previous one has returned                                               *)
(***************************************************************************)
\* The caller begins; the number of source writes so far is noted.
BeginCalls ==
    /\ c_mark = Null
    /\ \A r \in Runs : runs[r].pc = "idle"
    /\ c_mark' = Some(writes)
    /\ UNCHANGED << pipeline, target, driver, client, orders >>

\* The caller sends the next request once the previous one has returned.
CallRun(r) ==
    /\ c_mark # Null
    /\ \A q \in Runs : q < r => runs[q].pc = "done"
    /\ NewObjectName(r)

SequentialNext ==
    \/ BeginCalls
    \/ Tick
    \/ \E id \in RecordIds, form \in SourceForms : SourceWrite(id, form)
    \/ \E r \in Runs : CallRun(r)
    \/ \E r \in Runs : ReadCheckpoint(r)
    \/ \E r \in Runs, raises \in BOOLEAN : FetchPage(r, raises)
    \/ \E r \in Runs, raises \in BOOLEAN : CloseSink(r, raises)
    \/ \E r \in Runs, outcome \in {"create_raises", "load_raises", "load_errors", "ok"} :
            StageLoad(r, outcome)
    \/ \E r \in Runs, outcome \in {"raises", "errors", "ok"} : MergeStep(r, outcome)
    \/ \E r \in Runs, deleted \in BOOLEAN : Respond(r, deleted)

SpecSequential == Init /\ [][SequentialNext]_vars

(***************************************************************************)
(* services/bq_writer.py : two staging objects upserted in both orders     *)
(* onto the same staging table                                             *)
(***************************************************************************)
\* Lines of the object the starting table is made from, and lines of each
\* of the two objects.
MaxBaseLines == 1

MaxOrderLines == 2

\* The objects of up to n lines.
ObjectsUpTo(n) == UNION { [1..k -> StagedLines] : k \in 0..n }

\* The tables load_gcs_file_to_staging_upsert can leave when it succeeds.
UpsertTables(table, lines) ==
    { out.table : out \in UpsertOutcomes(create_table_with_schema(table, FALSE), lines) }

\* The starting table: a first object upserted into the empty table.
ChooseBase(lines) ==
    /\ o_phase = "idle"
    /\ o_phase' = "base"
    /\ o_table' \in UpsertTables(EmptyBag, lines)
    /\ UNCHANGED << o_a, o_b, o_ab, o_ba, pipeline, target, driver, client, caller >>

\* A line is appended to staging object A.
StageLineA(line) ==
    /\ o_phase = "base"
    /\ Len(o_a) < MaxOrderLines
    /\ o_a' = Append(o_a, line)
    /\ UNCHANGED << o_phase, o_table, o_b, o_ab, o_ba, pipeline, target, driver, client, caller >>

\* A line is appended to staging object B.
StageLineB(line) ==
    /\ o_phase = "base"
    /\ Len(o_b) < MaxOrderLines
    /\ o_b' = Append(o_b, line)
    /\ UNCHANGED << o_phase, o_table, o_a, o_ab, o_ba, pipeline, target, driver, client, caller >>

\* The two objects are upserted onto the starting table, A then B, and
\* onto the same starting table, B then A.
MergeBothOrders ==
    /\ o_phase = "base"
    /\ o_phase' = "merged"
    /\ \E mid \in UpsertTables(o_table, o_a) : o_ab' \in UpsertTables(mid, o_b)
    /\ \E mid \in UpsertTables(o_table, o_b) : o_ba' \in UpsertTables(mid, o_a)
    /\ UNCHANGED << o_table, o_a, o_b, pipeline, target, driver, client, caller >>

OrderNext ==
    \/ \E lines \in ObjectsUpTo(MaxBaseLines) : ChooseBase(lines)
    \/ \E line \in StagedLines : StageLineA(line)
    \/ \E line \in StagedLines : StageLineB(line)
    \/ MergeBothOrders

OrderInit == Init /\ source = << >>

SpecOrder == OrderInit /\ [][OrderNext]_vars

(***************************************************************************)
(* Properties                                                              *)
(***************************************************************************)
Failed(f) == f.response.sent /\ ~f.response.ok

Succeeded(f) == f.response.sent /\ f.response.ok

\* C1: the checkpoint is written only by the step in which a run whose
\* stage-and-merge returned success responds, and the step in which a run
\* ends in failure (at extraction, sink close, load or merge) leaves it as
\* it was.
C1_CheckpointOnlyAfterSuccess ==
    [][ /\ (last_run' # last_run) =>
              \E r \in Runs :
                  /\ runs[r].pc = "cleanup"
                  /\ runs[r].staging_result.success
                  /\ Succeeded(runs'[r])
                  /\ last_run' = Some(runs[r].current_ms)
        /\ \A r \in Runs :
              (~runs[r].response.sent /\ Failed(runs'[r])) => last_run' = last_run
      ]_vars

\* C1 witness: after a run that committed, another run failed at the merge
\* stage and the checkpoint is still the first run's.
C1_Witness ==
    \E r, q \in Runs :
        /\ Succeeded(runs[r])
        /\ Failed(runs[q]) /\ runs[q].stage = "merge"
        /\ last_run = runs[r].response.last_run_ms

\* C2: every write of the checkpoint overwrites it with a value that is
\* greater than or equal to the value it held (stated as the claim has it).
C2_CheckpointNonDecreasing ==
    [][ last_run # Null => (last_run' # Null /\ last_run'[1] >= last_run[1]) ]_vars

\* C3: when the checkpoint is c, every source record modified at or before
\* c has a row in the target table that is at least as recent (stated as
\* the claim has it).
C3_CheckpointCoversSource ==
    last_run # Null =>
        \A i \in DOMAIN source :
            source[i].f2.v <= last_run[1] =>
                \E t \in BagToSet(target) :
                    /\ t.record_id = Some(i)
                    /\ t.modified_date # Null
                    /\ t.modified_date[1] >= source[i].f2.v

\* The rows loaded into the temp table by the upsert applied last.
Loaded == _read_and_transform_gcs_file(m_object)

Upserted == m_phase \in {"merged", "again"}

\* The number of rows of the table that the last upsert inserted or
\* changed: the copies each row has gained.
RowsGained(before, after) ==
    CopiesSum(after (-) before, BagToSet(after (-) before))

\* C4: staging and merging the same object a second time leaves the target
\* table as the first application left it and affects no row (stated as
\* the claim has it).
C4_MergeIdempotent ==
    m_phase = "again" => (target = m_before /\ m_result.rows_affected = Some(0))

\* C5: every target row's modified_date is the newest modified_date that
\* was ever loaded for its record id (stated as the claim has it).
C5_TargetHoldsNewestStaged ==
    \A t \in BagToSet(target) :
        (t.record_id # Null /\ m_newest[t.record_id[1]] # Null) =>
            t.modified_date = m_newest[t.record_id[1]]

\* C6: after any sequence of upserts the target table holds at most one
\* row for each record id.
C6_OneRowPerRecordId ==
    \A t \in BagToSet(target) :
        t.record_id # Null =>
            CopiesSum(target, { x \in BagToSet(target) : x.record_id = t.record_id }) = 1

\* C6 witness: two objects were merged, the last one held two rows of one
\* record id, and the target holds rows of two record ids.
C6_Witness ==
    /\ Upserted
    /\ m_count = 2
    /\ \E i, j \in DOMAIN Loaded :
          i # j /\ Loaded[i].record_id # Null /\ Loaded[i].record_id = Loaded[j].record_id
    /\ \E t, u \in BagToSet(target) :
          t.record_id # Null /\ u.record_id # Null /\ t.record_id # u.record_id

\* a and b are rows of one record id and a is the older one.
OlderOfSameId(a, b) ==
    /\ a.record_id # Null
    /\ a.record_id = b.record_id
    /\ a.modified_date # Null
    /\ b.modified_date # Null
    /\ a.modified_date[1] < b.modified_date[1]

\* C7: when the merged object holds two rows of one record id with
\* different modified_date, the older row is not a row of the target table
\* after the merge, and every row the merge inserted or changed is a row
\* no other loaded row of its id is newer than.
C7_RecencyResolution ==
    Upserted =>
        /\ \A a, b \in Range(Loaded) :
              OlderOfSameId(a, b) => a \notin BagToSet(target)
        /\ \A x \in BagToSet(target (-) m_before) :
              /\ \E s \in Range(Loaded) :
                    /\ s.modified_date = x.modified_date
                    /\ s.notes = x.notes
                    /\ s.record_id = x.record_id
              /\ \A b \in Range(Loaded) : ~OlderOfSameId(x, b)

\* C7 witness: the object held an older and a newer row of one id, and the
\* merge put the newer one into the target table.
C7_Witness ==
    /\ Upserted
    /\ \E a, b \in Range(Loaded) :
          /\ OlderOfSameId(a, b)
          /\ b \in BagToSet(target)
          /\ b \notin BagToSet(m_before)

\* The staged row s is no newer than the target row t of the same id.
NotNewer(s, t) ==
    /\ OnMatch(t, s)
    /\ s.modified_date # Null
    /\ t.modified_date # Null
    /\ s.modified_date[1] <= t.modified_date[1]

\* C8: a target row whose id the merge's source row matches with a
\* modified_date that is not greater is left as it was; rows_affected counts
\* exactly the rows inserted or changed; and when every loaded row is of
\* that kind, rows_affected is 0 and the target table is unchanged.
C8_OlderRowsLeaveTargetAlone ==
    (Upserted /\ Loaded # << >>) =>
        /\ \A t \in BagToSet(m_before) :
              (\E s \in Range(Loaded) :
                    /\ NotNewer(s, t)
                    /\ s \in FirstRanked(Loaded, s.record_id))
                => CopiesIn(t, target) = CopiesIn(t, m_before)
        /\ m_result.rows_affected = Some(RowsGained(m_before, target))
        /\ (\A s \in Range(Loaded) : \E t \in BagToSet(m_before) : NotNewer(s, t))
                => (m_result.rows_affected = Some(0) /\ target = m_before)

\* C8 witness: the target held a row, every loaded row was no newer than
\* the target's row of its id, one of them strictly older, and nothing
\* was affected.
C8_Witness ==
    /\ Upserted
    /\ Loaded # << >>
    /\ \A s \in Range(Loaded) : \E t \in BagToSet(m_before) : NotNewer(s, t)
    /\ \E s \in Range(Loaded) : \E t \in BagToSet(m_before) : OlderOfSameId(s, t)
    /\ m_result.rows_affected = Some(0)
    /\ target = m_before

\* C9: once a stage-and-merge attempt has ended, its temp table was never
\* created or is deleted, or its deletion failed and it carries an expiry.
C9_TempTableDisposed ==
    \A r \in Runs :
        runs[r].pc = "done" =>
            \/ temp_tables[r].state \in {"none", "deleted"}
            \/ /\ temp_tables[r].state = "live"
               /\ temp_tables[r].delete_failed
               /\ temp_tables[r].expires

\* C9 witness: one attempt that succeeded ended with its temp table deleted,
\* another that failed ended with a failed deletion and a temp table that
\* expires.
C9_Witness ==
    \E r, q \in Runs :
        /\ Succeeded(runs[r]) /\ temp_tables[r].state = "deleted"
        /\ Failed(runs[q]) /\ temp_tables[q].state = "live"
        /\ temp_tables[q].delete_failed /\ temp_tables[q].expires

\* C10 as the claim has it: no request is issued after the first page that
\* is short or empty.
C10_NoRequestPastShortPage ==
    \A r \in Runs : runs[r].past_short = 0

\* C10, amended: the loop stops on the first empty page and only there.  No
\* request is issued after an empty page; while the loop runs every page
\* received was non-empty; when it has ended the last page received was the
\* empty one (one request more than pages written).
C10_StopsOnFirstEmptyPage ==
    \A r \in Runs :
        /\ runs[r].past_empty = 0
        /\ runs[r].pc = "extract" =>
              (~runs[r].empty_seen /\ runs[r].requests = runs[r].pages)
        /\ runs[r].pc \in {"close", "staging", "merge", "cleanup"} =>
              (runs[r].empty_seen /\ runs[r].requests = runs[r].pages + 1)

\* C10 witness: a full page, a short page and the empty page were consumed,
\* one request after the short page.
C10_Witness ==
    \E r \in Runs :
        /\ runs[r].pc = "close"
        /\ runs[r].pages = 2
        /\ runs[r].total_rows = PageSize + 1
        /\ runs[r].requests = 3
        /\ runs[r].past_short = 1

\* C11: a page request is sent at most 1 + RetryTotal times, and an
\* iteration against a source that answers only transient errors leads to a
\* raised error and a failure response of the run.
C11_BoundedRetry ==
    /\ [](q_sent <= RetryTotal + 1)
    /\ (q_pc = "request" /\ q_faulty) ~>
           (q_pc = "raised" /\ Failed([response |-> q_response]) /\ q_response.error # "none")

\* C11 witness: the request was sent 1 + RetryTotal times, the last answer
\* was a transient error and the run ended with a failure response.
C11_Witness ==
    /\ q_pc = "raised"
    /\ q_faulty
    /\ q_sent = RetryTotal + 1
    /\ q_status \in status_forcelist
    /\ Failed([response |-> q_response])

\* The step in which run r returns.
Returns(r) == runs[r].pc # "done" /\ runs'[r].pc = "done"

\* C12: every run that ends, ends with a response; a run ending from a
\* failed extraction, sink close or stage-and-merge responds ok false with
\* an error message; and a response with ok true is sent only by a run
\* whose extraction ended on the empty page, whose object was closed and
\* whose stage-and-merge returned success.
C12_NoExceptionEscapes ==
    [][ \A r \in Runs :
          Returns(r) =>
            /\ runs'[r].response.sent
            /\ ~runs'[r].response.ok => runs'[r].response.error # "none"
            /\ (runs[r].pc \in {"extract", "close"} \/ ~runs[r].staging_result.success)
                  => ~runs'[r].response.ok
            /\ runs'[r].response.ok =>
                  /\ runs[r].pc = "cleanup"
                  /\ runs[r].empty_seen
                  /\ runs[r].object_name \in DOMAIN objects
                  /\ runs[r].staging_result.success
      ]_vars

\* C12 witness: one run returned ok true, another failed in the extraction
\* loop and returned ok false with the exception's message.
C12_Witness ==
    \E r, q \in Runs :
        /\ Succeeded(runs[r])
        /\ Failed(runs[q])
        /\ runs[q].stage = "extraction"
        /\ runs[q].response.error = "exception"

\* The run has read the checkpoint and has not returned.
InFlight(f) == f.pc \in {"extract", "close", "staging", "merge", "cleanup"}

\* C13: the candidate is computed once, from the object name fixed at the
\* run's start, and the filter once, from the checkpoint read then; neither
\* changes while the run lasts; every page request carries that filter; and
\* the value a successful run commits is that candidate, whatever the clock
\* shows and whatever the checkpoint holds at that moment.
C13_CandidateFixedAtStart ==
    [][ \A r \in Runs :
          /\ (runs[r].pc = "named" /\ runs'[r].pc = "extract") =>
                /\ runs'[r].prev_ms = last_run
                /\ runs'[r].current_ms =
                       gcs_object_epoch_ms(new_object_name(runs[r].start))
          /\ (InFlight(runs[r]) /\ InFlight(runs'[r])) =>
                /\ runs'[r].prev_ms = runs[r].prev_ms
                /\ runs'[r].current_ms = runs[r].current_ms
          /\ runs'[r].wheres \subseteq {runs'[r].prev_ms}
          /\ (Returns(r) /\ runs'[r].response.ok) =>
                /\ last_run' = Some(runs[r].current_ms)
                /\ runs'[r].response.last_run_ms = Some(runs[r].current_ms)
                /\ runs[r].current_ms =
                       gcs_object_epoch_ms(new_object_name(runs[r].start))
                /\ runs[r].current_ms <= runs[r].start
                /\ runs[r].start < runs[r].current_ms + MsPerSecond
      ]_vars

\* C13 witness: a run committed its own candidate after a run that started
\* later had committed a greater one, and a second later than its start.
C13_Witness ==
    \E r, q \in Runs :
        /\ Succeeded(runs[r]) /\ Succeeded(runs[q])
        /\ runs[q].response.last_run_ms[1] > runs[r].response.last_run_ms[1]
        /\ last_run = runs[r].response.last_run_ms
        /\ now >= last_run[1] + MsPerSecond

\* The run holds an object name: it was named and has not returned.
Named(f) == f.pc \notin {"idle", "done"}

\* C14: two runs that are in progress at the same time hold different
\* object names (stated as the claim has it, for runs that overlap).
C14_DistinctObjectNames ==
    \A r, q \in Runs :
        (r # q /\ Named(runs[r]) /\ Named(runs[q])) =>
            runs[r].object_name # runs[q].object_name

\* C15: the upsert of a run starts only from the state after its sink was
\* closed, with its object published; only a run's MERGE changes the target
\* table, and it merges the rows read from the object as published when the
\* upsert started; a run that has not left the sink
\* has made no upsert attempt; and the step in which a run aborts in the
\* extraction loop or at the close publishes no object and leaves the
\* target table alone.
C15_MergeReadsClosedObject ==
    [][ \A r \in Runs :
          /\ (runs[r].pc \notin {"merge", "cleanup"} /\ runs'[r].pc \in {"merge", "cleanup"}) =>
                /\ runs[r].pc = "staging"
                /\ runs[r].object_name \in DOMAIN objects
          /\ (runs[r].pc = "staging" /\ runs'[r].pc = "merge") =>
                runs'[r].records = _read_and_transform_gcs_file(objects[runs[r].object_name])
          /\ runs[r].pc \in {"named", "extract", "close"} =>
                (temp_tables[r] = NoTemp /\ runs[r].records = << >>)
          /\ (Returns(r) /\ runs[r].pc \in {"extract", "close"}) =>
                /\ objects' = objects
                /\ target' = target
                /\ temp_tables'[r] = NoTemp
          /\ target' # target =>
                \E q \in Runs : runs[q].pc = "merge" /\ runs[q].object_name \in DOMAIN objects
      ]_vars

\* C15 witness: a run aborted at the close of its sink and made no upsert
\* attempt, the only published object is the one the other run closed and
\* is now merging, and the target table is still empty.
C15_Witness ==
    \E r, q \in Runs :
        /\ Failed(runs[r]) /\ runs[r].stage = "close"
        /\ temp_tables[r] = NoTemp
        /\ runs[q].pc = "merge"
        /\ DOMAIN objects = {runs[q].object_name}
        /\ target = EmptyBag

\* C16: a step of the extraction loop that writes a page keeps the lines
\* the sink holds, in place, and puts the page's records after them, one
\* line per record in the page's order; the count of rows is the count of
\* lines; and the close publishes exactly the lines of the sink.
C16_LinesInInsertionOrder ==
    [][ \A r \in Runs :
          /\ (runs[r].pc = "extract" /\ runs'[r].pc = "extract"
                /\ runs'[r].requests = runs[r].requests + 1) =>
                LET page == get_records(PageSize, runs[r].skip, runs[r].prev_ms)
                    old  == runs[r].writer
                    new  == runs'[r].writer
                IN  /\ Len(new) = Len(old) + Len(page)
                    /\ \A i \in 1..Len(old) : new[i] = old[i]
                    /\ \A j \in 1..Len(page) : new[Len(old) + j] = page[j]
                    /\ runs'[r].total_rows = Len(new)
          /\ (runs[r].pc = "close" /\ runs'[r].pc = "staging") =>
                /\ objects'[runs[r].object_name] = runs[r].writer
                /\ Len(objects'[runs[r].object_name]) = runs[r].total_rows
      ]_vars

\* C16 witness: a run closed an object of two batches, a full page and
\* then a short one, whose lines are records 1, 2, 3 in that order.
C16_Witness ==
    \E r \in Runs :
        /\ runs[r].pc = "staging"
        /\ runs[r].pages = 2
        /\ runs[r].object_name \in DOMAIN objects
        /\ LET lines == objects[runs[r].object_name]
           IN  /\ Len(lines) = PageSize + 1
               /\ \A i \in 1..Len(lines) : lines[i].f3.v = i

\* C17: every row of the target table has a record_id and a modified_date
\* that are not NULL (stated as the claim has it).
C17_TargetRowsHaveKeyAndDate ==
    \A t \in BagToSet(target) :
        t.record_id # Null /\ t.modified_date # Null

\* C18: the step in which the load or the MERGE of a run fails leaves the
\* target table as it was; a run whose stage-and-merge failed returns ok
\* false without touching the checkpoint or the target table; and the
\* target table changes only in a MERGE step that ends in success.
C18_NoPartialMerge ==
    [][ /\ \A r \in Runs :
              /\ (runs[r].fault = "none" /\ runs'[r].fault # "none") =>
                    (target' = target /\ last_run' = last_run)
              /\ (runs[r].fault # "none" /\ Returns(r)) =>
                    /\ Failed(runs'[r])
                    /\ runs'[r].response.error = "staging"
                    /\ last_run' = last_run
                    /\ target' = target
        /\ target' # target =>
              \E r \in Runs :
                  /\ runs[r].pc = "merge"
                  /\ runs'[r].fault = "none"
                  /\ runs'[r].staging_result.success
      ]_vars

\* C18 witness: the MERGE of a run that had loaded rows failed; the run
\* returned ok false, the target table is still empty, no checkpoint was
\* committed and the temp table is deleted.
C18_Witness ==
    \E r \in Runs :
        /\ Failed(runs[r])
        /\ runs[r].stage = "merge"
        /\ runs[r].response.gcs_rows > 0
        /\ target = EmptyBag
        /\ last_run = Null
        /\ temp_tables[r].state = "deleted"

\* Run r follows a successful run and the source has not changed since the
\* caller began, before the first of them started.
RepeatsUnchanged(r) ==
    /\ r - 1 \in Runs
    /\ Succeeded(runs[r - 1])
    /\ Named(runs[r])
    /\ c_mark = Some(writes)

\* C19: a run that follows a successful run, with the source unchanged all
\* along, does not change the target table, and its stage-and-merge, when
\* it succeeds, reports rows_affected 0 (stated as the claim has it).
C19_RepeatedRunChangesNothing ==
    [][ \A r \in Runs :
          (RepeatsUnchanged(r) /\ writes' = writes) =>
              /\ target' = target
              /\ (runs[r].pc # "cleanup" /\ runs'[r].pc = "cleanup"
                    /\ runs'[r].staging_result.success) =>
                        runs'[r].staging_result.rows_affected = Some(0)
      ]_vars

\* Run r read an empty checkpoint and the source has not changed since the
\* caller began, before the run started.
FirstRunUnchanged(r) ==
    /\ InFlight(runs[r])
    /\ runs[r].prev_ms = Null
    /\ c_mark = Some(writes)

SourceCount == Cardinality(DOMAIN source)

\* C20: a run that read an empty checkpoint sends no filter; when its loop
\* has ended it has extracted as many rows as the source holds records, in
\* one page per non-empty page fetched; its stage-and-merge into an empty
\* target table reports that number as rows_affected; and it commits and
\* reports the start time its object name encodes (stated as the claim has
\* it).
C20_FirstRunLoadsEverything ==
    [][ \A r \in Runs :
          FirstRunUnchanged(r) =>
              /\ runs[r].wheres \subseteq {Null}
              /\ runs[r].pc = "close" =>
                    /\ runs[r].total_rows = SourceCount
                    /\ runs[r].pages = runs[r].requests - 1
              /\ (runs[r].pc # "cleanup" /\ runs'[r].pc = "cleanup"
                    /\ runs'[r].staging_result.success /\ target = EmptyBag) =>
                        runs'[r].staging_result.rows_affected = Some(SourceCount)
              /\ (Returns(r) /\ runs'[r].response.ok) =>
                    /\ runs'[r].response.gcs_rows = SourceCount
                    /\ last_run' = Some(gcs_object_epoch_ms(new_object_name(runs[r].start)))
      ]_vars

\* C21: after a successful stage-and-merge, rows_loaded is the number of
\* rows loaded into the temp table, rows_affected is the number of target
\* rows the MERGE inserted or changed, and rows_affected is not greater
\* than rows_loaded.
C21_CountsAreAccurate ==
    (Upserted /\ m_result.success) =>
        /\ m_result.rows_loaded = Len(Loaded)
        /\ m_result.rows_affected # Null
        /\ m_result.rows_affected = Some(RowsGained(m_before, target))
        /\ m_result.rows_affected[1] <= m_result.rows_loaded

\* C21 witness: two rows of one record id were loaded onto a target table
\* that held an older row of it; one row was affected, an update.
C21_Witness ==
    /\ Upserted
    /\ m_result.success
    /\ m_result.rows_loaded = 2
    /\ m_result.rows_affected = Some(1)
    /\ \E t \in BagToSet(m_before) : \E s \in Range(Loaded) : OlderOfSameId(t, s)
    /\ BagCardinality(target) = BagCardinality(m_before)

TargetKeys(table) == { t.record_id : t \in BagToSet(table) }

\* C22: no step of a run, whatever its outcome, takes a record_id away from
\* the target table or leaves it with fewer rows: the stage-and-merge
\* ensures the table without dropping it and the MERGE only updates and
\* inserts.
C22_TargetNeverDropped ==
    [][ /\ TargetKeys(target) \subseteq TargetKeys(target')
        /\ BagCardinality(target') >= BagCardinality(target)
        /\ \A r \in Runs :
              (runs[r].pc = "staging" /\ runs'[r].pc # "staging") => target' = target
      ]_vars

\* C22 witness: a run read the checkpoint another run had committed, so it
\* started its stage-and-merge on the table that run had filled; its load
\* failed and the rows are still there.
C22_Witness ==
    \E r, q \in Runs :
        /\ Succeeded(runs[r])
        /\ runs[q].pc = "cleanup"
        /\ runs[q].fault = "load"
        /\ runs[q].temp_fqid
        /\ runs[q].prev_ms = runs[r].response.last_run_ms
        /\ BagCardinality(target) >= 2

\* The cell with the same underlying value, wrapped as {value: ...}.
Wrapped(cell) == IF cell.form = "raw" THEN [cell EXCEPT !.form = "wrapped"] ELSE cell

WrappedRecord(rec) == QbRecord(Wrapped(rec.f3), Wrapped(rec.f2), Wrapped(rec.f8))

\* C23: every line of the merged object, whether its cells are raw values
\* or wrapped, is loaded as the row its wrapped form gives, none is
\* dropped, and the target table holds a row of its record id after the
\* merge (stated as the claim has it).
C23_RawAndWrappedAlike ==
    Upserted =>
        /\ Len(Loaded) = Len(m_object)
        /\ \A i \in DOMAIN m_object :
              /\ i \in DOMAIN Loaded
              /\ Loaded[i] = transform_quickbase_record(WrappedRecord(m_object[i]))
              /\ Loaded[i].record_id \in TargetKeys(target)

\* The response names the stage that failed: only the response of app.py
\* line 84-90 does ("Staging upsert failed: ..." with the upsert's message).
CarriesStage(resp) == resp.error = "staging"

\* C24: every failure response, whichever stage failed, carries the stage
\* reached and the pages and rows extracted so far (stated as the claim has
\* it).
C24_FailureCarriesStageAndCounts ==
    \A r \in Runs :
        Failed(runs[r]) =>
            /\ runs[r].response.has_counts
            /\ CarriesStage(runs[r].response)

\* C25: the step that ends a stage-and-merge attempt and answers the
\* request gives the same answer whether the temp table was deleted or its
\* deletion failed: ok and the committed checkpoint after a successful
\* merge, the staging failure with the checkpoint untouched otherwise, with
\* the same counts.
C25_CleanupFailureIsHarmless ==
    [][ \A r \in Runs :
          (Returns(r) /\ runs[r].pc = "cleanup") =>
              /\ runs'[r].response.sent
              /\ runs'[r].response.ok = runs[r].staging_result.success
              /\ runs'[r].response.has_counts
              /\ runs'[r].response.gcs_pages = runs[r].pages
              /\ runs'[r].response.gcs_rows = runs[r].total_rows
              /\ target' = target
              /\ IF runs[r].staging_result.success
                 THEN /\ last_run' = Some(runs[r].current_ms)
                      /\ runs'[r].response.last_run_ms = last_run'
                 ELSE /\ last_run' = last_run
                      /\ runs'[r].response.error = "staging"
      ]_vars

\* C25 witness: the temp tables of two runs could not be deleted; the run
\* whose merge had succeeded committed its checkpoint and answered ok, the
\* run whose merge had failed answered with the staging failure.
C25_Witness ==
    \E r, q \in Runs :
        /\ temp_tables[r].delete_failed /\ temp_tables[r].state = "live"
        /\ Succeeded(runs[r])
        /\ last_run = runs[r].response.last_run_ms
        /\ BagCardinality(target) > 0
        /\ temp_tables[q].delete_failed /\ temp_tables[q].state = "live"
        /\ Failed(runs[q])
        /\ runs[q].stage = "merge"
        /\ runs[q].response.error = "staging"

\* C26: a run that answers ok, and so has committed its checkpoint, has
\* loaded as many rows into the temp table as its finalized object has
\* lines (stated as the claim has it).
C26_NoLineDroppedOnSuccess ==
    [][ \A r \in Runs :
          (Returns(r) /\ runs'[r].response.ok) =>
              /\ last_run' = Some(runs[r].current_ms)
              /\ runs[r].object_name \in DOMAIN objects
              /\ runs[r].staging_result.rows_loaded = Len(objects[runs[r].object_name])
      ]_vars

\* The extraction loop of the run ended on an empty first page.
EmptyExtraction(f) == f.empty_seen /\ f.pages = 0 /\ f.requests = 1

\* C27: the stage-and-merge of a run whose first page was empty, when
\* nothing raises, returns success with rows_loaded 0 and rows_affected 0
\* straight from the load, without a MERGE and with the target table
\* unchanged; the run then answers ok, commits the start time its object
\* name encodes, and its temp table is deleted (or, the deletion failing,
\* left to expire) (stated as the claim has it).
C27_EmptyRunSucceeds ==
    [][ \A r \in Runs :
          /\ (runs[r].pc = "staging" /\ EmptyExtraction(runs[r])
                /\ runs'[r].pc # "staging" /\ runs'[r].fault = "none") =>
                /\ runs'[r].pc = "cleanup"
                /\ runs'[r].staging_result.success
                /\ runs'[r].staging_result.rows_loaded = 0
                /\ runs'[r].staging_result.rows_affected = Some(0)
                /\ temp_tables'[r].state = "live"
                /\ target' = target
          /\ (runs[r].pc = "cleanup" /\ EmptyExtraction(runs[r])
                /\ runs[r].fault = "none" /\ Returns(r)) =>
                /\ runs'[r].response.ok
                /\ last_run' = Some(gcs_object_epoch_ms(new_object_name(runs[r].start)))
                /\ target' = target
                /\ \/ temp_tables'[r].state = "deleted"
                   \/ temp_tables'[r].delete_failed /\ temp_tables'[r].expires
      ]_vars

\* The rows loaded from staging objects A and B.
LoadedAB == Range(_read_and_transform_gcs_file(o_a)) \cup Range(_read_and_transform_gcs_file(o_b))

\* No two rows of A and B share record_id and modified_date unless they
\* are the same row.
NoConflictingRows ==
    \A x, y \in LoadedAB :
        (x.record_id = y.record_id /\ x.modified_date = y.modified_date) => x = y

\* C28: two staging objects without conflicting rows, merged A then B,
\* leave the target table that merging them B then A leaves (stated as the
\* claim has it).
C28_MergeOrderIrrelevant ==
    (o_phase = "merged" /\ NoConflictingRows) => o_ab = o_ba

====
